---- MODULE Spec2Model ----
(***************************************************************************)
(* ARM hardware feature detection (mono/utils/mono-hwcap-arm.c).           *)
(*                                                                         *)
(* The eight capability flags are the state.  mono_hwcap_arch_init has     *)
(* three bodies, one per build (auxiliary vector, sysctl, uname +          *)
(* /proc/cpuinfo); the build and what the platform answers are fixed when  *)
(* the process starts.  C strings are sequences of byte values.            *)
(***************************************************************************)
EXTENDS Integers, Sequences, FiniteSets, TLC

VARIABLES
    env,     \* the build and the platform's answers; never changes
    flags,   \* the eight mono_hwcap_arm_* globals
    sink,    \* what mono_hwcap_print has written to its FILE, one entry per g_fprintf
    op,      \* the operation that ran last: "none", "init" or "print"
    pre,     \* flags and sink as they were when the last operation started
    ncalls   \* calls of mono_hwcap_arch_init so far

vars == <<env, flags, sink, op, pre, ncalls>>

----------------------------------------------------------------------------
(* Bounds of the model *)

MaxCalls == 2     \* calls of mono_hwcap_arch_init
MaxPrints == 1    \* calls of mono_hwcap_print
MaxLines == 2     \* lines put into a /proc/cpuinfo

----------------------------------------------------------------------------
(* Program constants *)

HWCAP_ARM_THUMB == 4
HWCAP_ARM_VFP == 64
HWCAP_ARM_VFPv3 == 8192
HWCAP_ARM_VFPv3D16 == 16384

Ch5 == 53    \* '5'
Ch6 == 54    \* '6'
Ch7 == 55    \* '7'

\* <mach/machine.h>
CPU_SUBTYPE_ARM_V6 == 6
CPU_SUBTYPE_ARM_V5TEJ == 7
CPU_SUBTYPE_ARM_XSCALE == 8
CPU_SUBTYPE_ARM_V7 == 9
CPU_SUBTYPE_ARM_V7F == 10
CPU_SUBTYPE_ARM_V7K == 12

BufSize == 512    \* char buf [512]

Str_Processor == <<80, 114, 111, 99, 101, 115, 115, 111, 114>>          \* "Processor"
Str_model_name == <<109, 111, 100, 101, 108, 32, 110, 97, 109, 101>>    \* "model name"
Str_ver == <<40, 118>>                                                  \* "(v"
Str_Features == <<70, 101, 97, 116, 117, 114, 101, 115>>                \* "Features"
Str_thumb == <<116, 104, 117, 109, 98>>                                 \* "thumb"
Str_vfp == <<118, 102, 112>>                                            \* "vfp"
Str_vfpv3 == <<118, 102, 112, 118, 51>>                                 \* "vfpv3"
Str_vfpv3_d16 == <<118, 102, 112, 118, 51, 45, 100, 49, 54>>            \* "vfpv3-d16"
Str_aarch64 == <<97, 97, 114, 99, 104, 54, 52>>                         \* "aarch64"
Str_armv8 == <<97, 114, 109, 118, 56>>                                  \* "armv8"

----------------------------------------------------------------------------
(* The flags *)

FlagNames ==
    {"is_v5", "is_v6", "is_v7", "has_vfp", "has_vfp3", "has_vfp3_d16",
     "has_thumb", "has_thumb2"}

\* gboolean mono_hwcap_arm_... = FALSE;
AllFalse == [n \in FlagNames |-> FALSE]

----------------------------------------------------------------------------
(* C library and language *)

Min(S) == CHOOSE x \in S : \A y \in S : x <= y

\* s [i - 1] of a NUL-terminated string: past the last byte is the terminator
At(s, i) == IF i <= Len(s) THEN s[i] ELSE 0

\* the value of a plain char holding byte b: signed or unsigned with the ABI
CharVal(b) == IF env.charSigned /\ b >= 128 THEN b - 256 ELSE b

RECURSIVE BitAnd(_, _)
BitAnd(a, b) ==
    IF a = 0 \/ b = 0 THEN 0
    ELSE (a % 2) * (b % 2) + 2 * BitAnd(a \div 2, b \div 2)

\* !strncmp (s, lit, n): equal up to n bytes, or up to and including a terminator
StrNEq(s, lit, n) ==
    \A i \in 1..n :
        (\A j \in 1..(i - 1) : At(s, j) # 0) => At(s, i) = At(lit, i)

\* strstr (s, needle): the index of the first occurrence, 0 for NULL
StrStr(s, needle) ==
    LET hits == {i \in 1..(Len(s) - Len(needle) + 1) :
                    SubSeq(s, i, i + Len(needle) - 1) = needle}
    IN  IF hits = {} THEN 0 ELSE Min(hits)

----------------------------------------------------------------------------
(* The three version comparisons, made on one byte *)

\* SetVersion with == in place of >= in the comparison with '6'
SetVersionEq(c, f) ==
    [f EXCEPT !.is_v5 = @ \/ CharVal(c) >= Ch5,
              !.is_v6 = @ \/ CharVal(c) = Ch6,
              !.is_v7 = @ \/ CharVal(c) >= Ch7]

\* if (c >= '5') is_v5 = TRUE; if (c >= '6') is_v6 = TRUE; if (c >= '7') is_v7 = TRUE;
SetVersion(c, f) ==
    [f EXCEPT !.is_v5 = @ \/ CharVal(c) >= Ch5,
              !.is_v6 = @ \/ CharVal(c) >= Ch6,
              !.is_v7 = @ \/ CharVal(c) >= Ch7]

----------------------------------------------------------------------------
(* Auxiliary vector: HAVE_SYS_AUXV_H and not Android *)

\* HwcapStep testing the VFPv3D16 bit for has_vfp3
HwcapStepWrongBit(hwcap, f) ==
    IF hwcap # 0
    THEN [f EXCEPT !.has_thumb = @ \/ BitAnd(hwcap, HWCAP_ARM_THUMB) # 0,
                   !.has_vfp = @ \/ BitAnd(hwcap, HWCAP_ARM_VFP) # 0,
                   !.has_vfp3 = @ \/ BitAnd(hwcap, HWCAP_ARM_VFPv3D16) # 0,
                   !.has_vfp3_d16 = @ \/ BitAnd(hwcap, HWCAP_ARM_VFPv3D16) # 0]
    ELSE f

\* if ((hwcap = getauxval(AT_HWCAP))) { ... }
HwcapStep(hwcap, f) ==
    IF hwcap # 0
    THEN [f EXCEPT !.has_thumb = @ \/ BitAnd(hwcap, HWCAP_ARM_THUMB) # 0,
                   !.has_vfp = @ \/ BitAnd(hwcap, HWCAP_ARM_VFP) # 0,
                   !.has_vfp3 = @ \/ BitAnd(hwcap, HWCAP_ARM_VFPv3) # 0,
                   !.has_vfp3_d16 = @ \/ BitAnd(hwcap, HWCAP_ARM_VFPv3D16) # 0]
    ELSE f

\* PlatformByte reading str [0]
PlatformByteFirst(platform) ==
    IF Len(platform.str) = 0 THEN 0 ELSE platform.str[1]

\* str [1]: the second byte, the terminator of a one-byte string, and for the
\* empty string the byte that lies behind its terminator
PlatformByte(platform) ==
    IF Len(platform.str) = 0 THEN env.pastEnd ELSE At(platform.str, 2)

\* if ((platform = getauxval(AT_PLATFORM))) { ... }
PlatformStep(platform, f) ==
    IF ~platform.null THEN SetVersion(PlatformByte(platform), f) ELSE f

ArchInitAuxv ==
    /\ env.build = "auxv"
    /\ ncalls < MaxCalls
    /\ flags' = PlatformStep(env.platform, HwcapStep(env.hwcap, flags))
    /\ pre' = [flags |-> flags, sink |-> sink]
    /\ op' = "init"
    /\ ncalls' = ncalls + 1
    /\ UNCHANGED <<env, sink>>

----------------------------------------------------------------------------
(* sysctl: __APPLE__ *)

\* the if / else if chain on sub_type
SubtypeStep(sub_type, f) ==
    IF sub_type = CPU_SUBTYPE_ARM_V5TEJ \/ sub_type = CPU_SUBTYPE_ARM_XSCALE
    THEN [f EXCEPT !.is_v5 = TRUE]
    ELSE IF sub_type = CPU_SUBTYPE_ARM_V6
    THEN [f EXCEPT !.is_v5 = TRUE, !.is_v6 = TRUE]
    ELSE IF sub_type = CPU_SUBTYPE_ARM_V7 \/ sub_type = CPU_SUBTYPE_ARM_V7F
            \/ sub_type = CPU_SUBTYPE_ARM_V7K
    THEN [f EXCEPT !.is_v5 = TRUE, !.is_v6 = TRUE, !.is_v7 = TRUE]
    ELSE f

\* what an int left on the stack may hold
StackInts == (-1)..13

\* sysctlbyname writes sub_type when it succeeds; when it fails sub_type keeps
\* whatever the stack held, and the return value is not looked at
ArchInitApple ==
    /\ env.build = "apple"
    /\ ncalls < MaxCalls
    /\ \E garbage \in StackInts :
          LET sub_type == IF env.sysctlOk THEN env.cpusubtype ELSE garbage
          IN  flags' = SubtypeStep(sub_type, flags)
    /\ pre' = [flags |-> flags, sink |-> sink]
    /\ op' = "init"
    /\ ncalls' = ncalls + 1
    /\ UNCHANGED <<env, sink>>

----------------------------------------------------------------------------
(* uname + /proc/cpuinfo: Android, or no sys/auxv.h *)

\* UnameStep without the "armv8" spelling
UnameStepAarch64Only(machine, f) ==
    IF machine.have /\ StrNEq(machine.str, Str_aarch64, 7)
    THEN [n \in FlagNames |-> TRUE]
    ELSE f

\* #if defined (HAVE_SYS_UTSNAME_H) ... if (!strncmp (name.machine, ...)) { ... }
UnameStep(machine, f) ==
    IF machine.have
       /\ (StrNEq(machine.str, Str_aarch64, 7) \/ StrNEq(machine.str, Str_armv8, 5))
    THEN [f EXCEPT !.is_v5 = TRUE, !.is_v6 = TRUE, !.is_v7 = TRUE,
                   !.has_vfp = TRUE, !.has_vfp3 = TRUE, !.has_vfp3_d16 = TRUE,
                   !.has_thumb = TRUE, !.has_thumb2 = TRUE]
    ELSE f

\* fgets (buf, 512, file) with the file read up to byte pos - 1: at most
\* BufSize - 1 bytes, ending behind the first newline; <<>> is NULL, end of file
Fgets(text, pos) ==
    LET avail == Len(text) - pos + 1
        limit == IF avail < BufSize - 1 THEN avail ELSE BufSize - 1
        nl == {i \in pos..(pos + limit - 1) : text[i] = 10}
        last == IF nl = {} THEN pos + limit - 1 ELSE Min(nl)
    IN  IF avail <= 0 THEN <<>> ELSE SubSeq(text, pos, last)

\* FeaturesStep that also looks for "thumb2"
FeaturesStepThumb2(line, f) ==
    [f EXCEPT !.has_thumb = @ \/ StrStr(line, Str_thumb) # 0,
              !.has_thumb2 = @ \/ StrStr(line, Str_thumb \o <<50>>) # 0,
              !.has_vfp = @ \/ StrStr(line, Str_vfp) # 0,
              !.has_vfp3 = @ \/ StrStr(line, Str_vfpv3) # 0,
              !.has_vfp3_d16 = @ \/ StrStr(line, Str_vfpv3_d16) # 0]

\* the body of if (!strncmp (line, "Features", 8))
FeaturesStep(line, f) ==
    [f EXCEPT !.has_thumb = @ \/ StrStr(line, Str_thumb) # 0,
              !.has_vfp = @ \/ StrStr(line, Str_vfp) # 0,
              !.has_vfp3 = @ \/ StrStr(line, Str_vfpv3) # 0,
              !.has_vfp3_d16 = @ \/ StrStr(line, Str_vfpv3_d16) # 0]

\* the body of the while loop, for one string fgets returned
ScanLine(line, f) ==
    IF StrNEq(line, Str_Processor, 9) \/ StrNEq(line, Str_model_name, 10)
    THEN LET ver == StrStr(line, Str_ver)
         IN  IF ver # 0 THEN SetVersion(At(line, ver + 2), f) ELSE f
    ELSE IF StrNEq(line, Str_Features, 8)
    THEN FeaturesStep(line, f)
    ELSE f

\* while ((line = fgets (buf, 512, file))) { ... }
RECURSIVE ScanFrom(_, _, _)
ScanFrom(text, pos, f) ==
    LET line == Fgets(text, pos)
    IN  IF line = <<>> THEN f
        ELSE ScanFrom(text, pos + Len(line), ScanLine(line, f))

\* what the lines of a /proc/cpuinfo are drawn from
Pad(n) == [i \in 1..n |-> 120]

CpuinfoLines == <<
    \* "model name : ARMv7 Processor rev 2 (v7l)\n"
    <<109, 111, 100, 101, 108, 32, 110, 97, 109, 101, 32, 58, 32, 65, 82, 77, 118,
      55, 32, 80, 114, 111, 99, 101, 115, 115, 111, 114, 32, 114, 101, 118, 32, 50,
      32, 40, 118, 55, 108, 41, 10>>,
    \* "Features : thumb vfp vfpv3\n"
    <<70, 101, 97, 116, 117, 114, 101, 115, 32, 58, 32, 116, 104, 117, 109, 98, 32,
      118, 102, 112, 32, 118, 102, 112, 118, 51, 10>>,
    \* "Processor : ARMv6-compatible processor rev 7 (v6l)\n"
    <<80, 114, 111, 99, 101, 115, 115, 111, 114, 32, 58, 32, 65, 82, 77, 118, 54,
      45, 99, 111, 109, 112, 97, 116, 105, 98, 108, 101, 32, 112, 114, 111, 99, 101,
      115, 115, 111, 114, 32, 114, 101, 118, 32, 55, 32, 40, 118, 54, 108, 41, 10>>,
    \* "Features : half thumb2 vfpv3-d16\n"
    <<70, 101, 97, 116, 117, 114, 101, 115, 32, 58, 32, 104, 97, 108, 102, 32, 116,
      104, 117, 109, 98, 50, 32, 118, 102, 112, 118, 51, 45, 100, 49, 54, 10>>,
    \* "Hardware : thumb vfp (v7l)\n"
    <<72, 97, 114, 100, 119, 97, 114, 101, 32, 58, 32, 116, 104, 117, 109, 98, 32,
      118, 102, 112, 32, 40, 118, 55, 108, 41, 10>>,
    \* "Features : swp half", the file ending without a newline
    <<70, 101, 97, 116, 117, 114, 101, 115, 32, 58, 32, 115, 119, 112, 32, 104, 97,
      108, 102>>,
    \* "model name : (v" and a byte above 127, then "\n"
    <<109, 111, 100, 101, 108, 32, 110, 97, 109, 101, 32, 58, 32, 40, 118, 200, 10>>,
    \* "Features : xxx...x thumb\n", " thumb\n" lying behind byte BufSize - 1
    <<70, 101, 97, 116, 117, 114, 101, 115, 32, 58, 32>> \o Pad(BufSize - 12)
        \o <<32, 116, 104, 117, 109, 98, 10>>,
    \* "Hardware : xxx...xFeatures : vfp\n", "Features" starting at byte BufSize
    <<72, 97, 114, 100, 119, 97, 114, 101, 32, 58, 32>> \o Pad(BufSize - 12)
        \o <<70, 101, 97, 116, 117, 114, 101, 115, 32, 58, 32, 118, 102, 112, 10>>,
    \* "Processor : thumb vfp (v4) (v7l)\n"
    <<80, 114, 111, 99, 101, 115, 115, 111, 114, 32, 58, 32, 116, 104, 117, 109, 98,
      32, 118, 102, 112, 32, 40, 118, 52, 41, 32, 40, 118, 55, 108, 41, 10>>
    >>

\* the bytes of the file whose lines are CpuinfoLines[ids[1]], CpuinfoLines[ids[2]], ...
RECURSIVE FileText(_)
FileText(ids) ==
    IF ids = <<>> THEN <<>> ELSE CpuinfoLines[Head(ids)] \o FileText(Tail(ids))

\* CpuinfoStep that resets the flags when fopen fails
CpuinfoStepClearing(cpuinfo, f) ==
    IF cpuinfo.exists THEN ScanFrom(FileText(cpuinfo.lines), 1, f) ELSE AllFalse

\* FILE *file = fopen ("/proc/cpuinfo", "r"); if (file) { ... fclose (file); }
CpuinfoStep(cpuinfo, f) ==
    IF cpuinfo.exists THEN ScanFrom(FileText(cpuinfo.lines), 1, f) ELSE f

ArchInitFallback ==
    /\ env.build = "fallback"
    /\ ncalls < MaxCalls
    /\ flags' = CpuinfoStep(env.cpuinfo, UnameStep(env.machine, flags))
    /\ pre' = [flags |-> flags, sink |-> sink]
    /\ op' = "init"
    /\ ncalls' = ncalls + 1
    /\ UNCHANGED <<env, sink>>

----------------------------------------------------------------------------
(* mono_hwcap_print *)

Digits == <<"0", "1", "2", "3", "4", "5", "6", "7", "8", "9">>

\* %i
RECURSIVE FormatI(_)
FormatI(n) ==
    IF n < 0 THEN "-" \o FormatI(-n)
    ELSE IF n < 10 THEN Digits[n + 1]
    ELSE FormatI(n \div 10) \o Digits[(n % 10) + 1]

\* a gboolean is an int, TRUE is 1 and FALSE is 0
GBool(b) == IF b THEN 1 ELSE 0

\* g_fprintf (f, "mono_hwcap_arm_<name> = %i\n", mono_hwcap_arm_<name>)
GFprintf(name, value) == "mono_hwcap_arm_" \o name \o " = " \o FormatI(value) \o "\n"

\* PrintOrder with the Thumb flags first
PrintOrderThumbFirst ==
    <<"has_thumb", "has_thumb2", "is_v5", "is_v6", "is_v7", "has_vfp", "has_vfp3",
      "has_vfp3_d16">>

\* the order of the eight g_fprintf calls
PrintOrder ==
    <<"is_v5", "is_v6", "is_v7", "has_vfp", "has_vfp3", "has_vfp3_d16",
      "has_thumb", "has_thumb2">>

PrintText(f) ==
    [i \in 1..Len(PrintOrder) |-> GFprintf(PrintOrder[i], GBool(f[PrintOrder[i]]))]

HwcapPrint ==
    /\ Len(sink) < MaxPrints * Len(PrintOrder)
    /\ sink' = sink \o PrintText(flags)
    /\ pre' = [flags |-> flags, sink |-> sink]
    /\ op' = "print"
    /\ UNCHANGED <<env, flags, ncalls>>

----------------------------------------------------------------------------
(* The platforms the process may start on *)

RECURSIVE Sum(_)
Sum(S) == IF S = {} THEN 0 ELSE LET x == CHOOSE y \in S : TRUE IN x + Sum(S \ {x})

\* AT_HWCAP: any set of the four bits looked at, of HWCAP_ARM_SWP (1) and of
\* HWCAP_ARM_NEON (4096)
Hwcaps ==
    {Sum(S) : S \in SUBSET {1, HWCAP_ARM_THUMB, HWCAP_ARM_VFP, 4096,
                            HWCAP_ARM_VFPv3, HWCAP_ARM_VFPv3D16}}

NoString == [null |-> TRUE, str |-> <<>>]

\* AT_PLATFORM: "", "v", "v4l" ... "v8l", and "v" with a byte above 127
PlatformStrings ==
    {<<>>, <<118>>, <<118, 52, 108>>, <<118, 53, 108>>, <<118, 54, 108>>,
     <<118, 55, 108>>, <<118, 56, 108>>, <<118, 200>>}

Platforms == {NoString} \cup {[null |-> FALSE, str |-> s] : s \in PlatformStrings}

\* the byte behind the terminator of an empty platform string
PastEndBytes(platform) ==
    IF ~platform.null /\ platform.str = <<>> THEN {0, 55, 200} ELSE {0}

NoMachine == [have |-> FALSE, str |-> <<>>]

\* name.machine: "armv7l", "armv8l", "aarch64", "aarch6"
MachineStrings ==
    {<<97, 114, 109, 118, 55, 108>>, <<97, 114, 109, 118, 56, 108>>,
     <<97, 97, 114, 99, 104, 54, 52>>, <<97, 97, 114, 99, 104, 54>>}

\* without HAVE_SYS_UTSNAME_H uname is not asked
Machines == {NoMachine} \cup {[have |-> TRUE, str |-> s] : s \in MachineStrings}

NoFile == [exists |-> FALSE, lines |-> <<>>]

RECURSIVE SeqsUpTo(_, _)
SeqsUpTo(S, n) ==
    IF n = 0 THEN {<<>>}
    ELSE LET shorter == SeqsUpTo(S, n - 1)
         IN  shorter \cup {Append(s, x) : s \in shorter, x \in S}

Cpuinfos ==
    {NoFile} \cup
    {[exists |-> TRUE, lines |-> l] : l \in SeqsUpTo(1..Len(CpuinfoLines), MaxLines)}

BaseEnv ==
    [build |-> "auxv", charSigned |-> FALSE, hwcap |-> 0, platform |-> NoString,
     pastEnd |-> 0, sysctlOk |-> TRUE, cpusubtype |-> 0, machine |-> NoMachine,
     cpuinfo |-> NoFile]

AuxvEnvs ==
    UNION {{[BaseEnv EXCEPT !.charSigned = s, !.hwcap = h, !.platform = p,
                            !.pastEnd = b] :
                s \in BOOLEAN, h \in Hwcaps, b \in PastEndBytes(p)} :
           p \in Platforms}

\* hw.cpusubtype: CPU_SUBTYPE_ARM_ALL (0) to CPU_SUBTYPE_ARM_V7K (12) and 13; a
\* failed query stores nothing
AppleEnvs ==
    {[BaseEnv EXCEPT !.build = "apple", !.charSigned = TRUE, !.cpusubtype = t] :
        t \in 0..13}
    \cup {[BaseEnv EXCEPT !.build = "apple", !.charSigned = TRUE, !.sysctlOk = FALSE]}

FallbackEnvs ==
    {[BaseEnv EXCEPT !.build = "fallback", !.charSigned = s, !.machine = m,
                     !.cpuinfo = c] :
        s \in BOOLEAN, m \in Machines, c \in Cpuinfos}

Envs == AuxvEnvs \cup AppleEnvs \cup FallbackEnvs

----------------------------------------------------------------------------
(* The process *)

Init ==
    /\ env \in Envs
    /\ flags = AllFalse
    /\ sink = <<>>
    /\ op = "none"
    /\ pre = [flags |-> AllFalse, sink |-> <<>>]
    /\ ncalls = 0

Next ==
    \/ ArchInitAuxv
    \/ ArchInitApple
    \/ ArchInitFallback
    \/ HwcapPrint

Spec == Init /\ [][Next]_vars

----------------------------------------------------------------------------
(* What the properties below speak of *)

\* the call that just returned was mono_hwcap_arch_init, started with every flag FALSE
InitFromDefaults == op = "init" /\ pre.flags = AllFalse

\* value has the bit of the one-bit mask set
BitSet(value, mask) == (value \div mask) % 2 = 1

\* s begins with the bytes of prefix
HasPrefix(s, prefix) ==
    Len(s) >= Len(prefix) /\ SubSeq(s, 1, Len(prefix)) = prefix

Contains(s, part) ==
    \E i \in 1..(Len(s) - Len(part) + 1) : SubSeq(s, i, i + Len(part) - 1) = part

\* uname names an ARMv8 machine
MachineIsArmv8 ==
    /\ env.machine.have
    /\ HasPrefix(env.machine.str, Str_aarch64) \/ HasPrefix(env.machine.str, Str_armv8)

\* the lines of a text: it is cut behind every newline
LinesOf(text) ==
    LET starts == {i \in 1..Len(text) : i = 1 \/ text[i - 1] = 10}
        EndOf(b) == IF \E i \in b..Len(text) : text[i] = 10
                    THEN Min({i \in b..Len(text) : text[i] = 10})
                    ELSE Len(text)
    IN  {SubSeq(text, b, EndOf(b)) : b \in starts}

\* the byte behind the first "(v" of a line that has one
VersionByte(line) ==
    LET at == Min({i \in 1..(Len(line) - 1) : SubSeq(line, i, i + 1) = Str_ver})
    IN  IF at + 2 <= Len(line) THEN line[at + 2] ELSE 0

\* the flags a set of lines asks for: the version flags from the byte behind
\* the first "(v" of a "Processor" or "model name" line, the feature flags from
\* the tokens of a "Features" line
FlagsOfLines(lines) ==
    LET Version(least) ==
            \E l \in lines :
                /\ HasPrefix(l, Str_Processor) \/ HasPrefix(l, Str_model_name)
                /\ Contains(l, Str_ver)
                /\ CharVal(VersionByte(l)) >= least
        Feature(token) ==
            \E l \in lines : HasPrefix(l, Str_Features) /\ Contains(l, token)
    IN  [is_v5 |-> Version(53), is_v6 |-> Version(54), is_v7 |-> Version(55),
         has_vfp |-> Feature(Str_vfp), has_vfp3 |-> Feature(Str_vfpv3),
         has_vfp3_d16 |-> Feature(Str_vfpv3_d16),
         has_thumb |-> Feature(Str_thumb), has_thumb2 |-> FALSE]

----------------------------------------------------------------------------
(* C1: in every state, before and after any number of calls of             *)
(* mono_hwcap_arch_init on any build and any platform input, is_v7 implies *)
(* is_v6 and is_v6 implies is_v5.                                          *)
VersionFlagsMonotonic ==
    /\ flags.is_v7 => flags.is_v6
    /\ flags.is_v6 => flags.is_v5

\* a /proc/cpuinfo scan on a machine that is not ARMv8 has found v6 and not v7
VersionFlagsMonotonicWitness ==
    /\ env.build = "fallback" /\ ~MachineIsArmv8 /\ InitFromDefaults
    /\ flags.is_v5 /\ flags.is_v6 /\ ~flags.is_v7

(* C2: on the auxiliary-vector build, after a call started with every flag  *)
(* FALSE, has_thumb, has_vfp, has_vfp3 and has_vfp3_d16 are TRUE exactly    *)
(* when bit 0x4, 0x40, 0x2000, 0x4000 of AT_HWCAP is set; with AT_HWCAP =   *)
(* 0x40 and no platform string has_vfp is the only flag that is TRUE.       *)
HwcapBitsDecideFeatures ==
    (env.build = "auxv" /\ InitFromDefaults) =>
        /\ flags.has_thumb = BitSet(env.hwcap, 4)
        /\ flags.has_vfp = BitSet(env.hwcap, 64)
        /\ flags.has_vfp3 = BitSet(env.hwcap, 8192)
        /\ flags.has_vfp3_d16 = BitSet(env.hwcap, 16384)
        /\ (env.hwcap = 64 /\ env.platform.null) =>
               flags = [AllFalse EXCEPT !.has_vfp = TRUE]

\* the call has run with only the VFP bit set and no platform string
HwcapBitsDecideFeaturesWitness ==
    /\ env.build = "auxv" /\ InitFromDefaults
    /\ env.hwcap = 64 /\ env.platform.null
    /\ flags.has_vfp /\ ~flags.has_vfp3

(* C3: on the auxiliary-vector build, after a call started with every flag  *)
(* FALSE and given a platform string that is not empty, with c its second   *)
(* char (the terminator when it has one byte), is_v5 is TRUE iff c >= '5',  *)
(* is_v6 iff c >= '6' and is_v7 iff c >= '7'; with c = '7' all three are    *)
(* TRUE.                                                                    *)
PlatformSecondCharDecidesVersion ==
    (/\ env.build = "auxv" /\ InitFromDefaults
     /\ ~env.platform.null /\ Len(env.platform.str) >= 1) =>
        LET c == CharVal(At(env.platform.str, 2))
        IN  /\ flags.is_v5 = (c >= 53)
            /\ flags.is_v6 = (c >= 54)
            /\ flags.is_v7 = (c >= 55)
            /\ c = 55 => flags.is_v5 /\ flags.is_v6 /\ flags.is_v7

\* the call has run on the platform string "v7l"
PlatformSecondCharDecidesVersionWitness ==
    /\ env.build = "auxv" /\ InitFromDefaults
    /\ env.platform = [null |-> FALSE, str |-> <<118, 55, 108>>]
    /\ flags.is_v5 /\ flags.is_v6 /\ flags.is_v7

(* C4: on the uname + /proc/cpuinfo build, once mono_hwcap_arch_init has    *)
(* run on a machine whose identifier begins with "aarch64" or "armv8", all  *)
(* eight flags are TRUE, whatever /proc/cpuinfo holds and whether or not it *)
(* exists.                                                                  *)
Armv8MachineSetsAllFlags ==
    (env.build = "fallback" /\ ncalls >= 1 /\ MachineIsArmv8) =>
        \A n \in FlagNames : flags[n]

\* the call has run on an "armv8l" machine and has scanned a /proc/cpuinfo with lines
Armv8MachineSetsAllFlagsWitness ==
    /\ env.build = "fallback" /\ op = "init"
    /\ env.machine = [have |-> TRUE, str |-> <<97, 114, 109, 118, 56, 108>>]
    /\ env.cpuinfo.exists /\ Len(env.cpuinfo.lines) >= 1
    /\ \A n \in FlagNames : flags[n]

(* C5: on the uname + /proc/cpuinfo build, after a call started with every  *)
(* flag FALSE on a machine that is not ARMv8, each flag is TRUE exactly     *)
(* when a line of /proc/cpuinfo sets it: is_v5, is_v6, is_v7 when a line    *)
(* beginning with "Processor" or "model name" has "(v" followed by a char   *)
(* >= '5', '6', '7'; has_thumb, has_vfp, has_vfp3, has_vfp3_d16 when a line *)
(* beginning with "Features" contains "thumb", "vfp", "vfpv3", "vfpv3-d16"; *)
(* no other line sets a flag, and has_thumb2 stays FALSE.                   *)
CpuinfoLinesDecideFlags ==
    (/\ env.build = "fallback" /\ InitFromDefaults
     /\ ~MachineIsArmv8 /\ env.cpuinfo.exists) =>
        flags = FlagsOfLines(LinesOf(FileText(env.cpuinfo.lines)))

\* The statement of C5 does hold of every /proc/cpuinfo whose lines, newline
\* included, fit the buffer fgets fills (at most BufSize - 1 bytes).
CpuinfoShortLinesDecideFlags ==
    (/\ env.build = "fallback" /\ InitFromDefaults
     /\ ~MachineIsArmv8 /\ env.cpuinfo.exists
     /\ \A l \in LinesOf(FileText(env.cpuinfo.lines)) : Len(l) <= BufSize - 1) =>
        flags = FlagsOfLines(LinesOf(FileText(env.cpuinfo.lines)))

(* C6: on the uname + /proc/cpuinfo build, when /proc/cpuinfo cannot be     *)
(* opened a call of mono_hwcap_arch_init returns with the flags the uname   *)
(* step left: all TRUE on an ARMv8 machine, and otherwise as they were when *)
(* the call started.                                                        *)
AbsentCpuinfoChangesNothing ==
    (env.build = "fallback" /\ op = "init" /\ ~env.cpuinfo.exists) =>
        flags = IF MachineIsArmv8 THEN [n \in FlagNames |-> TRUE] ELSE pre.flags

\* the call has run on an ARMv8 machine without a /proc/cpuinfo
AbsentCpuinfoChangesNothingWitness ==
    /\ env.build = "fallback" /\ op = "init" /\ ~env.cpuinfo.exists
    /\ MachineIsArmv8 /\ pre.flags = AllFalse /\ flags.has_thumb2

(* C7: mono_hwcap_print appends exactly eight lines to its sink, for is_v5, *)
(* is_v6, is_v7, has_vfp, has_vfp3, has_vfp3_d16, has_thumb, has_thumb2 in  *)
(* this order, each "mono_hwcap_arm_<name> = 0" or "... = 1" with the       *)
(* flag's value, and changes no flag.                                       *)
PrintWritesEightLines ==
    op = "print" =>
        LET Bit(b) == IF b THEN "1" ELSE "0"
        IN  /\ flags = pre.flags
            /\ sink = pre.sink \o
                 << "mono_hwcap_arm_is_v5 = " \o Bit(flags.is_v5) \o "\n",
                    "mono_hwcap_arm_is_v6 = " \o Bit(flags.is_v6) \o "\n",
                    "mono_hwcap_arm_is_v7 = " \o Bit(flags.is_v7) \o "\n",
                    "mono_hwcap_arm_has_vfp = " \o Bit(flags.has_vfp) \o "\n",
                    "mono_hwcap_arm_has_vfp3 = " \o Bit(flags.has_vfp3) \o "\n",
                    "mono_hwcap_arm_has_vfp3_d16 = " \o Bit(flags.has_vfp3_d16) \o "\n",
                    "mono_hwcap_arm_has_thumb = " \o Bit(flags.has_thumb) \o "\n",
                    "mono_hwcap_arm_has_thumb2 = " \o Bit(flags.has_thumb2) \o "\n" >>

\* the flags were printed with some TRUE and some FALSE
PrintWritesEightLinesWitness ==
    /\ op = "print" /\ Len(sink) = 8
    /\ flags.is_v7 /\ flags.has_thumb /\ ~flags.has_vfp /\ ~flags.has_thumb2

(* C8: a second or later call of mono_hwcap_arch_init, on the same build    *)
(* and platform, leaves all eight flags as the call before left them.       *)
InitIsIdempotent ==
    (op = "init" /\ ncalls >= 2) => flags = pre.flags

(* C9: after a call started with every flag FALSE, a mechanism that gave    *)
(* nothing has set nothing: AT_HWCAP = 0 leaves the four feature flags      *)
(* FALSE, no AT_PLATFORM leaves the three version flags FALSE, a failed     *)
(* hw.cpusubtype query leaves the three version flags FALSE, and a          *)
(* /proc/cpuinfo that cannot be opened leaves all flags FALSE on a machine  *)
(* that is not ARMv8.                                                       *)
FailedMechanismLeavesDefaults ==
    InitFromDefaults =>
        /\ (env.build = "auxv" /\ env.hwcap = 0) =>
               ~flags.has_thumb /\ ~flags.has_vfp /\ ~flags.has_vfp3
               /\ ~flags.has_vfp3_d16
        /\ (env.build = "auxv" /\ env.platform.null) =>
               ~flags.is_v5 /\ ~flags.is_v6 /\ ~flags.is_v7
        /\ (env.build = "apple" /\ ~env.sysctlOk) =>
               ~flags.is_v5 /\ ~flags.is_v6 /\ ~flags.is_v7
        /\ (env.build = "fallback" /\ ~env.cpuinfo.exists /\ ~MachineIsArmv8) =>
               flags = AllFalse

(* C10: after a call started with every flag FALSE, has_thumb2 is TRUE iff  *)
(* the build is the uname + /proc/cpuinfo one and the machine identifier    *)
(* begins with "aarch64" or "armv8"; no AT_HWCAP, AT_PLATFORM, CPU subtype  *)
(* or /proc/cpuinfo line sets it.                                           *)
Thumb2OnlyFromUname ==
    InitFromDefaults =>
        (flags.has_thumb2 <=> (env.build = "fallback" /\ MachineIsArmv8))

\* a Features line with "thumb2" was scanned on a machine that is not ARMv8
Thumb2OnlyFromUnameWitness ==
    /\ env.build = "fallback" /\ InitFromDefaults /\ ~MachineIsArmv8
    /\ env.cpuinfo.exists /\ 4 \in {env.cpuinfo.lines[i] : i \in DOMAIN env.cpuinfo.lines}
    /\ flags.has_thumb /\ ~flags.has_thumb2

====
